---- MODULE Spec2Model ----
(***************************************************************************)
(* Model of the climate-dashboard server: the scenario store created by    *)
(* server/database.js and the HTTP handlers of the Express server          *)
(* (GET /api/scenarios, POST /api/scenarios, GET /api/scenarios/:id) with  *)
(* the completion call and the response parser of generateScenario.        *)
(*                                                                         *)
(* The store is modelled by the contract the handlers use it under:        *)
(* prepare(sql).run(...) inserts synchronously and yields lastID,          *)
(* prepare(sql).all() yields the rows, prepare(sql).get(id) yields the row *)
(* or undefined.  A handler runs to its next await without interleaving    *)
(* (one JavaScript thread), so everything between the resumption of        *)
(* `await generateScenario' and res.json is one action.                    *)
(*                                                                         *)
(* Strings are sequences of tokens.  Numbers are integers in tenths.       *)
(*                                                                         *)
(* The functions that hold no server state are followed through `calc':    *)
(* the response parser, the two keyword fallback generators, the handler   *)
(* of POST /api/narrative/generate and the three curves of the client's    *)
(* generateSpeculativeForecast, each under a specification of its own that *)
(* draws the inputs in its initial states.  The WhatIfMode component of    *)
(* one browser tab is `ui': its React state and its requests in flight.    *)
(***************************************************************************)
EXTENDS Integers, Sequences, FiniteSets, TLC

\* ------------------------------------------------------------------ bounds
MaxReq == 2          \* request slots that can be in flight together
MaxRows == 3         \* rows the table may hold (seed included)
MaxTextLen == 2      \* tokens in a completion text
MaxDay == 1          \* calendar days the clock can reach
MaxMs == 1           \* milliseconds of a day the clock can reach
MsPerSec == 2        \* milliseconds per second, scaled down
SeqRows == 2         \* rows the table may hold when every text is tried
MaxProseLen == 2     \* tokens of the prose before, and after, an object literal
MaxInputLen == 3     \* words and spaces of a user input given to a fallback generator
YearsBack == 25      \* present years reach back this far from the end year
MaxRestarts == 2      \* starts of the server process after the first
MaxPosts == 2        \* POST /api/scenarios requests one tab can have in flight
PrefixLen == 2       \* tokens of the text an error message carries (200 characters, scaled down)

ReqIds == 1..MaxReq

\* -------------------------------------------------------------- constants
EndYear == 2100          \* const endYear = 2100
DecadeStep == 10         \* year += 10
CommittedWarming == 15   \* const committedWarming = 1.5, in tenths
PerturbationCap == 3     \* Math.random() * 0.3 lies below 0.3, in tenths
MinEmissionsPercent == 15  \* currentEmissions * 0.15, in hundredths
TempThreshold == 20      \* global_temp_2100 < 2.0, in tenths
DeploymentLag == 20      \* (year - currentYear) / 20
CommittedRise == 3       \* const committedRise = 0.3, in tenths
LowRiseFactor == 12      \* minPossibleRise * 1.2, in tenths
HighRiseFactor == 18     \* minPossibleRise * 1.8, in tenths

\* ------------------------------------------------------------ JSON values
\* A number of the JSON text, in tenths; a string value where a number is
\* expected ("9 billion") has t = "string".
Num(n) == [t |-> "number", n |-> n]
Str == [t |-> "string", n |-> 0]

EmptyObj == [k \in {} |-> 0]

\* {...a, ...b}: the keys of b override those of a.
Spread(a, b) ==
  [k \in (DOMAIN a) \cup (DOMAIN b) |-> IF k \in DOMAIN b THEN b[k] ELSE a[k]]

\* The alt_forecasts of the objects a completion text can carry.
FusionForecasts ==
  [global_temp_2100 |-> Num(18), death_toll_annual |-> Num(1800000),
   refugees |-> Num(120000000)]

\* The object literals a completion text can carry; each is one token of the
\* text, opening with "{" and closing with "}".
Payloads == {"good", "neg", "str", "noalt"}

PayloadObj(p) ==
  CASE p = "good" ->
         [theme |-> <<"T">>, alt_forecasts |-> FusionForecasts, narrative |-> <<"N">>]
    [] p = "neg" ->
         [theme |-> <<"T">>,
          alt_forecasts |-> [FusionForecasts EXCEPT !.global_temp_2100 = Num(-10)],
          narrative |-> <<"N">>]
    [] p = "str" ->
         [theme |-> <<"T">>,
          alt_forecasts |-> [FusionForecasts EXCEPT !.refugees = Str],
          narrative |-> <<"N">>]
    [] p = "noalt" ->
         [theme |-> <<"T">>, narrative |-> <<"N">>]
    [] p = "withid" ->
         [id |-> 99, theme |-> <<"T">>, alt_forecasts |-> FusionForecasts,
          narrative |-> <<"N">>]

\* Every object literal the decoder knows: those the texts are built from
\* and one whose object has an id field of its own.
ObjectLiterals == Payloads \cup {"withid"}

\* Tokens of a completion text: white space, a prose word, a lone brace, the
\* literal null, and the object literals.
Tokens == {" ", "w", "{", "}", "null"} \cup Payloads

RECURSIVE SeqsUpTo(_, _)
SeqsUpTo(S, n) ==
  IF n = 0 THEN {<<>>}
  ELSE LET shorter == SeqsUpTo(S, n - 1)
       IN  shorter \cup {Append(s, x) : s \in {t \in shorter : Len(t) = n - 1}, x \in S}

Texts == SeqsUpTo(Tokens, MaxTextLen)


\* ------------------------------------------------------- response parser
IsWs(tok) == tok = " "

\* String.prototype.trim: drop leading and trailing white space.
RECURSIVE TrimLeft(_)
TrimLeft(s) == IF s # <<>> /\ IsWs(Head(s)) THEN TrimLeft(Tail(s)) ELSE s

RECURSIVE TrimRight(_)
TrimRight(s) ==
  IF s # <<>> /\ IsWs(s[Len(s)]) THEN TrimRight(SubSeq(s, 1, Len(s) - 1)) ELSE s

Trim(s) == TrimRight(TrimLeft(s))

\* White space between the tokens of a JSON text is insignificant.
StripWs(s) == SelectSeq(s, LAMBDA tok : ~IsWs(tok))

Thrown == [ok |-> FALSE, kind |-> "none", obj |-> EmptyObj]
Returned(kind, obj) == [ok |-> TRUE, kind |-> kind, obj |-> obj]

\* JSON.parse: the literal null, the empty object or one object literal,
\* white space around it allowed; anything else throws SyntaxError.
JSONParse(s) ==
  LET t == StripWs(s)
  IN  IF t = <<"null">> THEN Returned("null", EmptyObj)
      ELSE IF t = <<"{", "}">> THEN Returned("object", EmptyObj)
      ELSE IF Len(t) = 1 /\ t[1] \in ObjectLiterals
           THEN Returned("object", PayloadObj(t[1]))
      ELSE Thrown

HasOpen(tok) == tok = "{" \/ tok \in ObjectLiterals
HasClose(tok) == tok = "}" \/ tok \in ObjectLiterals

BraceMatch_Nothing(s) == <<>>

BraceMatch_FirstObject(s) ==
  LET opens == {i \in 1..Len(s) : HasOpen(s[i])}
  IN  IF opens = {} THEN <<>>
      ELSE LET first == CHOOSE i \in opens : \A j \in opens : i <= j
               closes == {i \in first..Len(s) :
                            HasClose(s[i]) /\ (i = first => s[i] \in ObjectLiterals)}
           IN  IF closes = {} THEN <<>>
               ELSE SubSeq(s, first, CHOOSE i \in closes : \A j \in closes : i <= j)

\* response.match(/\{[\s\S]*\}/): greedy, from the first "{" to the last "}"
\* that follows it; <<>> stands for no match.
BraceMatch(s) ==
  LET opens == {i \in 1..Len(s) : HasOpen(s[i])}
  IN  IF opens = {} THEN <<>>
      ELSE LET first == CHOOSE i \in opens : \A j \in opens : i <= j
               closes == {i \in first..Len(s) :
                            HasClose(s[i]) /\ (i = first => s[i] \in ObjectLiterals)}
           IN  IF closes = {} THEN <<>>
               ELSE SubSeq(s, first, CHOOSE i \in closes : \A j \in closes : j <= i)

\* The decode steps of generateScenario on the text of an answered
\* completion: direct decode, then decode of the brace match, else throw.
ParseCompletion(text) ==
  LET response == Trim(text)
      direct == JSONParse(response)
      jsonMatch == BraceMatch(response)
  IN  IF direct.ok THEN direct
      ELSE IF jsonMatch # <<>> THEN JSONParse(jsonMatch)
      ELSE Thrown

\* JSON.stringify of a record: its object literal, one token of the text.
Serialize(obj) == CHOOSE p \in Payloads : PayloadObj(p) = obj

\* response.substring(0, n)
Substring(s, n) == SubSeq(s, 1, IF Len(s) < n THEN Len(s) ELSE n)

NoMessage == [lead |-> "", carried |-> <<>>, tail |-> ""]

MalformedMessage_WholeText(text) ==
  [lead |-> "OpenAI API error: AI did not generate valid JSON. Response: ",
   carried |-> text,
   tail |-> "..."]

\* The message of the Error the decode steps throw, as the outer catch
\* rethrows it: a lead-in, the first 200 characters of the trimmed text and
\* an ellipsis.
MalformedMessage(text) ==
  LET response == Trim(text)
  IN  [lead |-> IF BraceMatch(response) # <<>>
                THEN "OpenAI API error: AI generated invalid JSON. Response: "
                ELSE "OpenAI API error: AI did not generate valid JSON. Response: ",
       carried |-> Substring(response, PrefixLen),
       tail |-> "..."]

\* ------------------------------------------------ keyword fallback generator
\* String.prototype.toLowerCase on one word.
LowerWord(w) ==
  CASE w = "What" -> "what"
    [] w = "Fusion" -> "fusion"
    [] OTHER -> w

ToLowerCase(s) == [i \in 1..Len(s) |-> LowerWord(s[i])]

\* The vocabulary's substring pairs: <<w, k>> when word w contains k.
SubWords == {<<"superhero", "hero">>}

\* String.prototype.includes for a keyword, a sequence of words.
Includes(s, kw) ==
  \E i \in 1..(Len(s) - Len(kw) + 1) :
    \A j \in 1..Len(kw) :
      s[i + j - 1] = kw[j] \/ (Len(kw) = 1 /\ <<s[i], kw[1]>> \in SubWords)

IncludesAny(s, kws) == \E kw \in kws : Includes(s, kw)

FallbackRecord(theme, temp) ==
  [theme |-> <<theme>>,
   alt_forecasts |-> [global_temp_2100 |-> Num(temp)],
   narrative |-> <<theme, "narrative">>]

\* generateFallbackScenario: the first keyword class that matches the
\* lower-cased input, else the generic record.
generateFallbackScenario(userInput) ==
  LET input == ToLowerCase(userInput)
  IN  IF IncludesAny(input, {<<"fusion">>, <<"energy">>})
        THEN FallbackRecord("fusion", 18)
      ELSE IF IncludesAny(input, {<<"net-zero">>, <<"emissions">>, <<"carbon">>})
        THEN FallbackRecord("decarbonization", 22)
      ELSE IF IncludesAny(input, {<<"geoengineering">>, <<"climate", " ", "engineering">>})
        THEN FallbackRecord("geoengineering", 19)
      ELSE IF IncludesAny(input, {<<"superman">>, <<"hero">>, <<"superhero">>})
        THEN FallbackRecord("superhero", 18)
      ELSE IF IncludesAny(input, {<<"time", " ", "travel">>, <<"time", " ", "machine">>})
        THEN FallbackRecord("temporal", 15)
      ELSE FallbackRecord("generic", 25)

\* The record of a keyword class of createUniqueScenarioFromInput; its
\* alt_forecasts carry a carbon_emissions_2100 as well.
UniqueRecord(theme, temp, emissions) ==
  [theme |-> <<theme>>,
   alt_forecasts |-> [global_temp_2100 |-> Num(temp),
                      carbon_emissions_2100 |-> Num(emissions)],
   narrative |-> <<theme, "story">>]

\* What a fallback generator ends in: the record it returns, or the Error
\* it throws, whose message quotes the user input.
FallbackReturns(rec) == [ok |-> TRUE, rec |-> rec, quoted |-> <<>>]
FallbackThrows(userInput) == [ok |-> FALSE, rec |-> EmptyObj, quoted |-> userInput]

\* createUniqueScenarioFromInput: the first keyword class that matches the
\* lower-cased input, else `throw new Error(`Failed to generate AI scenario
\* for: "${userInput}". ...`)'.
createUniqueScenarioFromInput(userInput) ==
  LET inputLower == ToLowerCase(userInput)
  IN  IF IncludesAny(inputLower, {<<"superman">>, <<"hero">>, <<"superhero">>})
        THEN FallbackReturns(UniqueRecord("superhero", 18, 85))
      ELSE IF IncludesAny(inputLower, {<<"time", " ", "travel">>, <<"time", " ", "machine">>})
        THEN FallbackReturns(UniqueRecord("temporal", 15, 62))
      ELSE IF IncludesAny(inputLower, {<<"alien">>, <<"extraterrestrial">>, <<"ufo">>})
        THEN FallbackReturns(UniqueRecord("alien", 12, 48))
      ELSE IF IncludesAny(inputLower, {<<"fusion">>, <<"nuclear">>, <<"energy">>})
        THEN FallbackReturns(UniqueRecord("fusion", 19, 98))
      ELSE FallbackThrows(userInput)

\* ------------------------------------------------------------ request body
\* A request body is an object; a field that is missing is not in its
\* domain.  Indicator objects are abstracted to the set of keys they carry.
DefaultBaseline == {"global_temp", "carbon_emissions", "sea_level_rise", "forest_loss"}
DefaultImpacts ==
  {"death_toll_annual", "population", "arable_land_loss_percent", "refugees",
   "gdp_loss_percent", "biodiversity_loss_percent"}

SeedInput ==
  <<"What", " ", "if", " ", "we", " ", "master", " ", "fusion", " ", "energy",
    " ", "before", " ", "2025?">>

UserInputs == {<<>>, <<" ">>, <<"hello">>, <<"Fusion", " ", "power">>}

Bodies ==
  {EmptyObj}
  \cup {[userInput |-> u] : u \in UserInputs}
  \cup {[userInput |-> <<"hello">>, baselineData |-> {"global_temp"}],
        [userInput |-> <<"hello">>, baselineData |-> DefaultBaseline,
         humanImpacts |-> {"population"}]}

Has(obj, k) == k \in DOMAIN obj

\* baseline || {...}, impacts || {...}
BaselineOf(body) == IF Has(body, "baselineData") THEN body.baselineData ELSE DefaultBaseline
ImpactsOf(body) == IF Has(body, "humanImpacts") THEN body.humanImpacts ELSE DefaultImpacts

\* The prompt template of generateScenario reads .current of global_temp and
\* sea_level_rise and calls toLocaleString on death_toll_annual and refugees:
\* a TypeError when one of them is undefined.
PromptThrows(baselineData, humanImpacts) ==
  ~({"global_temp", "sea_level_rise"} \subseteq baselineData)
  \/ ~({"death_toll_annual", "refugees"} \subseteq humanImpacts)

\* ------------------------------------------------------- generateScenario
Rejected == [kind |-> "rejected", text |-> <<>>]
Answered(text) == [kind |-> "answered", text |-> text]

generateScenario_FallbackOnMalformed(userInput, completion) ==
  IF completion.kind = "rejected" THEN Thrown
  ELSE LET parsed == ParseCompletion(completion.text)
       IN  IF parsed.ok THEN parsed
           ELSE Returned("object", generateFallbackScenario(userInput))

\* The try/catch of generateScenario around the completion call: a rejected
\* call and an undecodable text both end in `throw new Error(...)'.
generateScenario(userInput, completion) ==
  IF completion.kind = "rejected" THEN Thrown
  ELSE ParseCompletion(completion.text)

\* ------------------------------------------------------------------ store
\* JSON.stringify of a decoded value, and JSON.parse of such a text.
JSONStringify(v) == [json |-> v]
JSONDecode(text) == text.json

\* created_at is text.  CURRENT_TIMESTAMP writes "YYYY-MM-DD HH:MM:SS",
\* toISOString writes "YYYY-MM-DDTHH:MM:SS.mmmZ": the date, then " " or "T",
\* then the time of day, in seconds or in milliseconds.
CurrentTimestamp(now) == [day |-> now.day, sep |-> 0, tod |-> now.ms \div MsPerSec]
ToISOString(now) == [day |-> now.day, sep |-> 1, tod |-> now.ms]

\* The order of the text comparison ORDER BY created_at applies.
TextLess(a, b) ==
  \/ a.day < b.day
  \/ a.day = b.day /\ a.sep < b.sep
  \/ a.day = b.day /\ a.sep = b.sep /\ a.tod < b.tod

NextId_NoIncrement(last) == IF last = 0 THEN 1 ELSE last

\* INTEGER PRIMARY KEY AUTOINCREMENT: one more than the largest id ever used.
NextId(last) == last + 1

SeedScenario ==
  [user_input |-> SeedInput,
   theme |-> <<"fusion">>,
   alt_forecasts |-> JSONStringify(FusionForecasts),
   narrative |-> <<"fusion", "narrative">>]

CountUserInput_AlwaysZero(table, u) == 0

\* SELECT COUNT(*) FROM scenarios WHERE user_input = ?
CountUserInput(table, u) == Cardinality({i \in 1..Len(table) : table[i].user_input = u})

Perms(n) == {p \in [1..n -> 1..n] : \A i, j \in 1..n : i # j => p[i] # p[j]}

\* SELECT * FROM scenarios ORDER BY created_at DESC: every order of the rows
\* in which no row comes before a row of greater created_at; rows of equal
\* created_at come in an order the query does not fix.
SelectAllOrdered(table) ==
  {[i \in 1..Len(table) |-> table[p[i]]] : p \in
     {q \in Perms(Len(table)) :
        \A i, j \in 1..Len(table) :
          i < j => ~TextLess(table[q[i]].created_at, table[q[j]].created_at)}}

\* SELECT * FROM scenarios WHERE id = ?: the rows with that id.
SelectById(table, id) == {i \in 1..Len(table) : table[i].id = id}

\* --------------------------------------------------------------- handlers
ErrorBody(msg) == [error |-> msg]

CreateFailure_EmptySuccess == [status |-> 200, body |-> EmptyObj]

\* res.status(500).json({ error: 'Failed to create scenario' })
CreateFailure == [status |-> 500, body |-> ErrorBody("Failed to create scenario")]

\* res.json({ id: result.lastID, ...aiResponse, userInput })
CreateSuccess(lastID, aiResponse, userInput) ==
  [status |-> 200,
   body |-> Spread(Spread([id |-> lastID], aiResponse), [userInput |-> userInput])]

\* The columns of the INSERT are NOT NULL: an undefined value binds NULL and
\* the statement throws.
NotNullFails(body, aiResponse) ==
  \/ ~Has(body, "userInput")
  \/ ~Has(aiResponse, "theme")
  \/ ~Has(aiResponse, "alt_forecasts")
  \/ ~Has(aiResponse, "narrative")

InsertScenario_Replace(table, id, userInput, aiResponse, now) ==
  LET row == [id |-> id,
              user_input |-> userInput,
              theme |-> aiResponse.theme,
              alt_forecasts |-> JSONStringify(aiResponse.alt_forecasts),
              narrative |-> aiResponse.narrative,
              created_at |-> ToISOString(now)]
      same == {i \in 1..Len(table) : table[i].user_input = userInput}
  IN  IF same = {} THEN Append(table, row)
      ELSE [i \in 1..Len(table) |-> IF i \in same THEN row ELSE table[i]]

\* INSERT INTO scenarios (user_input, theme, alt_forecasts, narrative, created_at)
InsertScenario(table, id, userInput, aiResponse, now) ==
  Append(table,
         [id |-> id,
          user_input |-> userInput,
          theme |-> aiResponse.theme,
          alt_forecasts |-> JSONStringify(aiResponse.alt_forecasts),
          narrative |-> aiResponse.narrative,
          created_at |-> ToISOString(now)])

\* INSERT INTO scenarios (user_input, theme, alt_forecasts, narrative) of the
\* seed: created_at takes the column default.
InsertSeed(table, id, now) ==
  Append(table,
         [id |-> id,
          user_input |-> SeedScenario.user_input,
          theme |-> SeedScenario.theme,
          alt_forecasts |-> SeedScenario.alt_forecasts,
          narrative |-> SeedScenario.narrative,
          created_at |-> CurrentTimestamp(now)])

\* scenario.alt_forecasts = JSON.parse(scenario.alt_forecasts)
DecodedRow(row) == [row EXCEPT !.alt_forecasts = JSONDecode(row.alt_forecasts)]

GetScenarioResponse_Fault(table, id) ==
  LET found == SelectById(table, id)
  IN  IF found # {}
      THEN [status |-> 200, body |-> DecodedRow(table[CHOOSE i \in found : TRUE])]
      ELSE [status |-> 500, body |-> ErrorBody("Scenario not found")]

\* GET /api/scenarios/:id
GetScenarioResponse(table, id) ==
  LET found == SelectById(table, id)
  IN  IF found # {}
      THEN [status |-> 200, body |-> DecodedRow(table[CHOOSE i \in found : TRUE])]
      ELSE [status |-> 404, body |-> ErrorBody("Scenario not found")]

ListResponse_EmptyIsNotFound(scenarios) ==
  IF scenarios = <<>> THEN [status |-> 404, body |-> <<>>]
  ELSE [status |-> 200, body |-> scenarios]

\* GET /api/scenarios: `if (!scenarios || !Array.isArray(scenarios))
\* res.json([]) else res.json(scenarios)'; all() yields an array, the empty
\* array for an empty table, so both branches send the rows it yielded.
ListResponse(scenarios) == [status |-> 200, body |-> scenarios]

\* What the rest of the POST handler does once generateScenario has settled:
\* the table, the id counter and the response.
FinishCreate(table, last, now, body, completion, storageFails) ==
  LET userInput == IF Has(body, "userInput") THEN body.userInput ELSE <<"undefined">>
      ai == generateScenario(userInput, completion)
      failed == [rows |-> table, seq |-> last, resp |-> CreateFailure]
  IN  IF ~ai.ok THEN failed
      ELSE IF ai.kind = "null" THEN failed
      ELSE IF NotNullFails(body, ai.obj) \/ storageFails THEN failed
      ELSE LET lastID == NextId(last)
           IN  [rows |-> InsertScenario(table, lastID, body.userInput, ai.obj, now),
                seq |-> lastID,
                resp |-> CreateSuccess(lastID, ai.obj, body.userInput)]

\* ------------------------------------------------------------------ state
VARIABLES
  rows,    \* the scenarios table, in insertion order
  seq,     \* the largest id the table ever assigned
  clock,   \* the server's date and time of day
  dbInit,  \* "pending" until the seed check of initDatabase has run
  reqs,    \* the POST /api/scenarios requests: idle, or awaiting the completion
  out,     \* the response the last handler step sent, with what it acted on
  calc,    \* a call of one of the program's functions: its inputs, then its result
  ui       \* the WhatIfMode component of one browser tab and its requests

vars == <<rows, seq, clock, dbInit, reqs, out, calc, ui>>

\* No function call is being followed.
NoCalc == [fn |-> "none"]

Idle == [st |-> "idle", body |-> EmptyObj]
Awaiting(body) == [st |-> "awaiting", body |-> body]
NoCompletion == [kind |-> "none", text |-> <<>>]

NoOut ==
  [op |-> "none", req |-> 0, arg |-> 0, status |-> 0, body |-> EmptyObj,
   before |-> <<>>, reqBody |-> EmptyObj, completion |-> NoCompletion,
   storageFails |-> FALSE]

Sent(op, r, arg, resp, before, reqBody, completion, storageFails) ==
  [op |-> op, req |-> r, arg |-> arg, status |-> resp.status, body |-> resp.body,
   before |-> before, reqBody |-> reqBody, completion |-> completion,
   storageFails |-> storageFails]

InFlight == {r \in ReqIds : reqs[r].st = "awaiting"}

\* useState(null) of currentScenario
Null == [null |-> TRUE]
\* a baseline object the tab has fetched, by the keys it carries
Fetched(keys) == [null |-> FALSE, keys |-> keys]

NoPost == [st |-> "none", userInput |-> <<>>, resp |-> CreateFailure]
NoFetch(st) == [st |-> st, body |-> <<>>]

\* WhatIfMode as it has mounted: the initial values of its useState calls,
\* and fetchData and fetchScenarios called by the effect, both awaiting.
Mounted ==
  [climateData |-> Null, humanImpacts |-> Null, scenarios |-> <<>>,
   userInput |-> <<>>, currentScenario |-> Null, generating |-> FALSE,
   fetch |-> NoFetch("sent"), posts |-> [k \in 1..MaxPosts |-> NoPost]]

\* The server as its module has loaded: no row, the seed check queued.
ServerInit ==
  /\ rows = <<>>
  /\ seq = 0
  /\ clock = [day |-> 0, ms |-> 0]
  /\ dbInit = "pending"
  /\ reqs = [r \in ReqIds |-> Idle]
  /\ out = NoOut
  /\ ui = Mounted

Init ==
  /\ ServerInit
  /\ calc = NoCalc

\* The response on the wire reaches its client.
Deliver ==
  /\ out # NoOut
  /\ out' = NoOut
  /\ UNCHANGED <<rows, seq, clock, dbInit, reqs, calc, ui>>

\* The callback of the seed check in initDatabase.
InitDatabase ==
  /\ out = NoOut
  /\ dbInit = "pending"
  /\ dbInit' = "done"
  /\ IF CountUserInput(rows, SeedScenario.user_input) = 0
     THEN /\ rows' = InsertSeed(rows, NextId(seq), clock)
          /\ seq' = NextId(seq)
     ELSE UNCHANGED <<rows, seq>>
  /\ UNCHANGED <<clock, reqs, out, calc, ui>>

\* Time passes.
Tick ==
  /\ out = NoOut
  /\ \/ /\ clock.ms < MaxMs
        /\ clock' = [clock EXCEPT !.ms = @ + 1]
     \/ /\ clock.day < MaxDay
        /\ clock' = [day |-> clock.day + 1, ms |-> 0]
  /\ UNCHANGED <<rows, seq, dbInit, reqs, out, calc, ui>>

\* Rows the table holds once the seed and every request in flight are in.
Committed == Len(rows) + Cardinality(InFlight) + (IF dbInit = "pending" THEN 1 ELSE 0)

\* POST /api/scenarios arrives: the defaults are substituted, the prompt is
\* built and the completion is requested; the handler suspends on it.
PostScenarios(r, body) ==
  /\ out = NoOut
  /\ reqs[r].st = "idle"
  /\ Committed < MaxRows
  /\ IF PromptThrows(BaselineOf(body), ImpactsOf(body))
     THEN /\ out' = Sent("create", r, 0, CreateFailure, rows, body, NoCompletion, FALSE)
          /\ UNCHANGED reqs
     ELSE /\ reqs' = [reqs EXCEPT ![r] = Awaiting(body)]
          /\ UNCHANGED out
  /\ UNCHANGED <<rows, seq, clock, dbInit, calc, ui>>

\* The completion call of request r settles: it rejects (network, timeout,
\* provider error) or answers with a text; the handler runs to its response.
CompletionSettles(r, completion, storageFails) ==
  /\ out = NoOut
  /\ reqs[r].st = "awaiting"
  /\ LET done == FinishCreate(rows, seq, clock, reqs[r].body, completion, storageFails)
     IN  /\ rows' = done.rows
         /\ seq' = done.seq
         /\ out' = Sent("create", r, 0, done.resp, rows, reqs[r].body, completion,
                      storageFails)
  /\ reqs' = [reqs EXCEPT ![r] = Idle]
  /\ UNCHANGED <<clock, dbInit, calc, ui>>

\* GET /api/scenarios
GetScenarios ==
  /\ out = NoOut
  /\ \E scenarios \in SelectAllOrdered(rows) :
       out' = Sent("list", 0, 0, ListResponse(scenarios), rows,
                   EmptyObj, NoCompletion, FALSE)
  /\ UNCHANGED <<rows, seq, clock, dbInit, reqs, calc, ui>>

\* GET /api/scenarios/:id
GetScenario(id) ==
  /\ out = NoOut
  /\ out' = Sent("get", 0, id, GetScenarioResponse(rows, id), rows, EmptyObj,
                 NoCompletion, FALSE)
  /\ UNCHANGED <<rows, seq, clock, dbInit, reqs, calc, ui>>

Completions == {Rejected} \cup {Answered(text) : text \in Texts}

\* The seed check is queued when the server module loads, before the server
\* listens; a completion takes a round trip to the provider, so it settles
\* after the seed check has run.
SeedCheckRan == dbInit = "done"

\* The bodies and completions of the runs that interleave requests.
CoreBodies == {[userInput |-> <<"hello">>], [userInput |-> <<"Fusion", " ", "power">>]}
CoreCompletions == {Rejected, Answered(<<"good">>), Answered(<<"w">>)}

Next ==
  \/ Deliver
  \/ InitDatabase
  \/ Tick
  \/ \E r \in ReqIds, body \in CoreBodies : PostScenarios(r, body)
  \/ \E r \in ReqIds, completion \in CoreCompletions, storageFails \in BOOLEAN :
       SeedCheckRan /\ CompletionSettles(r, completion, storageFails)
  \/ GetScenarios
  \/ \E id \in 0..(MaxRows + 1) : GetScenario(id)

Spec == Init /\ [][Next]_vars

\* The server under the scheduling of its event loop: a queued callback
\* runs and a response written to the socket reaches its client.  Nothing
\* makes the completion service answer, and the handler sets no timer on
\* the call it awaits, so no step of the server stands for its expiry.
NextLive ==
  \/ Deliver
  \/ InitDatabase
  \/ Tick
  \/ \E r \in ReqIds, body \in CoreBodies : PostScenarios(r, body)
  \/ \E r \in ReqIds, completion \in CoreCompletions, storageFails \in BOOLEAN :
       SeedCheckRan /\ CompletionSettles(r, completion, storageFails)

SpecLive ==
  Init /\ [][NextLive]_vars /\ WF_vars(Deliver) /\ WF_vars(InitDatabase)

\* One request at a time, with every body and every completion text.
NextCreate ==
  \/ Deliver
  \/ InitDatabase
  \/ \E body \in Bodies : Committed < SeqRows /\ PostScenarios(1, body)
  \/ \E completion \in Completions, storageFails \in BOOLEAN :
       SeedCheckRan /\ CompletionSettles(1, completion, storageFails)

SpecCreate == Init /\ [][NextCreate]_vars

\* One request at a time for the input of the seed scenario, with every
\* completion text.
NextSeedCreate ==
  \/ Deliver
  \/ InitDatabase
  \/ Committed < SeqRows /\ PostScenarios(1, [userInput |-> SeedInput])
  \/ \E completion \in Completions, storageFails \in BOOLEAN :
       SeedCheckRan /\ CompletionSettles(1, completion, storageFails)

SpecSeedCreate == Init /\ [][NextSeedCreate]_vars

\* One request at a time, the completion carrying an object with or without
\* an id field of its own, bare or after prose.
IdCompletions ==
  {Rejected, Answered(<<"good">>), Answered(<<"withid">>), Answered(<<"w", "withid">>)}

NextCreateId ==
  \/ Deliver
  \/ InitDatabase
  \/ Tick
  \/ \E body \in CoreBodies : Committed < SeqRows /\ PostScenarios(1, body)
  \/ \E completion \in IdCompletions, storageFails \in BOOLEAN :
       SeedCheckRan /\ CompletionSettles(1, completion, storageFails)

SpecCreateId == Init /\ [][NextCreateId]_vars

\* The server process ends and is started again on the same database file:
\* the table and its id counter are on disk, the suspended handlers and the
\* open connections are gone, and loading the module calls initDatabase,
\* which queues the seed check.  calc counts the starts after the first and
\* keeps the number of rows the table had at the last one.
Restarts == IF calc.fn = "initDatabase" THEN calc.runs ELSE 0

Restart ==
  /\ Restarts < MaxRestarts
  /\ dbInit' = "pending"
  /\ reqs' = [r \in ReqIds |-> Idle]
  /\ out' = NoOut
  /\ calc' = [fn |-> "initDatabase", runs |-> Restarts + 1, rowsAtStart |-> Len(rows)]
  /\ UNCHANGED <<rows, seq, clock, ui>>

RestartBodies == CoreBodies \cup {[userInput |-> SeedInput]}

NextRestart ==
  \/ Deliver
  \/ InitDatabase
  \/ Restart
  \/ \E r \in ReqIds, body \in RestartBodies : PostScenarios(r, body)
  \/ \E r \in ReqIds, completion \in CoreCompletions, storageFails \in BOOLEAN :
       SeedCheckRan /\ CompletionSettles(r, completion, storageFails)

SpecRestart == Init /\ [][NextRestart]_vars

\* ------------------------------------------------- the WhatIfMode client
\* One browser tab against the server.  A request of the tab is in flight
\* from the call of fetch to the resumption of the function that awaits it;
\* the server handles it at some moment in between, and responses reach the
\* tab in any order.  A step of the tab runs to its next await.
PostsInFlight == {k \in 1..MaxPosts : ui.posts[k].st # "none"}

\* fetchData resumes with both baselines: setClimateData, setHumanImpacts.
FetchDataCompletes ==
  /\ ui.climateData = Null
  /\ ui' = [ui EXCEPT !.climateData = Fetched(DefaultBaseline),
                      !.humanImpacts = Fetched(DefaultImpacts)]
  /\ UNCHANGED <<rows, seq, clock, dbInit, reqs, out, calc>>

\* The server handles the GET /api/scenarios of fetchScenarios.
ListHandled ==
  /\ ui.fetch.st = "sent"
  /\ \E scenarios \in SelectAllOrdered(rows) :
       ui' = [ui EXCEPT !.fetch = [st |-> "answered",
                                   body |-> ListResponse(scenarios).body]]
  /\ UNCHANGED <<rows, seq, clock, dbInit, reqs, out, calc>>

\* fetchScenarios resumes with the array: setScenarios, and setCurrentScenario
\* of its first element when it has one.
FetchScenariosCompletes ==
  /\ ui.fetch.st = "answered"
  /\ ui' = [ui EXCEPT !.fetch = NoFetch("done"),
                      !.scenarios = ui.fetch.body,
                      !.currentScenario =
                        IF Len(ui.fetch.body) > 0 THEN ui.fetch.body[1] ELSE @]
  /\ UNCHANGED <<rows, seq, clock, dbInit, reqs, out, calc>>

\* fetch rejects or the response is not ok: the catch block, setScenarios([]).
FetchScenariosFails ==
  /\ ui.fetch.st \in {"sent", "answered"}
  /\ ui' = [ui EXCEPT !.fetch = NoFetch("done"), !.scenarios = <<>>]
  /\ UNCHANGED <<rows, seq, clock, dbInit, reqs, out, calc>>

\* onChange of the input field: setUserInput(e.target.value)
TypeInput(text) ==
  /\ ui.userInput # text
  /\ ui' = [ui EXCEPT !.userInput = text]
  /\ UNCHANGED <<rows, seq, clock, dbInit, reqs, out, calc>>

\* generateScenario up to its await: the guard, setGenerating(true) and the
\* POST of the input with the baselines.
generateScenarioCalled(k) ==
  /\ Trim(ui.userInput) # <<>>
  /\ ui.climateData # Null
  /\ ui.humanImpacts # Null
  /\ ui.posts[k].st = "none"
  /\ \A j \in 1..MaxPosts : j < k => ui.posts[j].st # "none"
  /\ Len(rows) + Cardinality(PostsInFlight) + (IF dbInit = "pending" THEN 1 ELSE 0)
       < MaxRows
  /\ ui' = [ui EXCEPT !.generating = TRUE,
                      !.posts[k] = [st |-> "sent", userInput |-> ui.userInput,
                                    resp |-> CreateFailure]]
  /\ UNCHANGED <<rows, seq, clock, dbInit, reqs, out, calc>>

\* onClick of the Generate button, disabled={generating || !userInput.trim()}
ClickGenerate(k) ==
  /\ ~(ui.generating \/ Trim(ui.userInput) = <<>>)
  /\ generateScenarioCalled(k)

\* onKeyPress of the input field: e.key === 'Enter' && generateScenario()
PressEnter(k) == generateScenarioCalled(k)

\* The server runs the handler of POST k to its response.
PostHandled(k, completion, storageFails) ==
  /\ ui.posts[k].st = "sent"
  /\ LET body == [userInput |-> ui.posts[k].userInput,
                  baselineData |-> ui.climateData.keys,
                  humanImpacts |-> ui.humanImpacts.keys]
         done == IF PromptThrows(BaselineOf(body), ImpactsOf(body))
                 THEN [rows |-> rows, seq |-> seq, resp |-> CreateFailure]
                 ELSE FinishCreate(rows, seq, clock, body, completion, storageFails)
     IN  /\ rows' = done.rows
         /\ seq' = done.seq
         /\ ui' = [ui EXCEPT !.posts[k].st = "answered", !.posts[k].resp = done.resp]
  /\ UNCHANGED <<clock, dbInit, reqs, out, calc>>

\* generateScenario resumes with the response of POST k: a status that is
\* not ok throws, a body with an error field returns; otherwise
\* setCurrentScenario, setScenarios(prev => [newScenario, ...prev]) and
\* setUserInput('').  The finally block runs in every case.
generateScenarioCompletes(k) ==
  /\ ui.posts[k].st = "answered"
  /\ LET resp == ui.posts[k].resp
         newScenario == resp.body
         finally == [ui EXCEPT !.generating = FALSE, !.posts[k] = NoPost]
     IN  ui' = IF resp.status # 200 \/ Has(newScenario, "error") THEN finally
               ELSE [finally EXCEPT !.currentScenario = newScenario,
                                    !.scenarios = <<newScenario>> \o @,
                                    !.userInput = <<>>]
  /\ UNCHANGED <<rows, seq, clock, dbInit, reqs, out, calc>>

\* fetch of POST k rejects: the catch block and the finally block.
generateScenarioFails(k) ==
  /\ ui.posts[k].st \in {"sent", "answered"}
  /\ ui' = [ui EXCEPT !.generating = FALSE, !.posts[k] = NoPost]
  /\ UNCHANGED <<rows, seq, clock, dbInit, reqs, out, calc>>

\* onClick of an entry of the rendered scenarios list
selectScenario(scenario) ==
  /\ ui.currentScenario # scenario
  /\ ui' = [ui EXCEPT !.currentScenario = scenario]
  /\ UNCHANGED <<rows, seq, clock, dbInit, reqs, out, calc>>

TypedInputs == {<<>>, <<" ">>, <<"hello">>}

NextClient ==
  \/ InitDatabase
  \/ FetchDataCompletes
  \/ ListHandled
  \/ FetchScenariosCompletes
  \/ FetchScenariosFails
  \/ \E text \in TypedInputs : TypeInput(text)
  \/ \E k \in 1..MaxPosts : ClickGenerate(k)
  \/ \E k \in 1..MaxPosts : PressEnter(k)
  \/ \E k \in 1..MaxPosts, completion \in CoreCompletions, storageFails \in BOOLEAN :
       SeedCheckRan /\ PostHandled(k, completion, storageFails)
  \/ \E k \in 1..MaxPosts : generateScenarioCompletes(k)
  \/ \E k \in 1..MaxPosts : generateScenarioFails(k)
  \/ \E i \in 1..Len(ui.scenarios) : selectScenario(ui.scenarios[i])

SpecClient == Init /\ [][NextClient]_vars

\* ----------------------------------------- the response parser on its own
\* The texts the parser is run on: prose, or an object literal with prose
\* before it and after it.
ProseTokens == Tokens \ Payloads
Proses == SeqsUpTo(ProseTokens, MaxProseLen)
Literals == {<<>>} \cup {<<p>> : p \in Payloads}

ParseInput(pre, lit, post) ==
  [fn |-> "parse", st |-> "input", pre |-> pre, lit |-> lit, post |-> post,
   text |-> pre \o lit \o post, result |-> Thrown, err |-> NoMessage]

InitParse ==
  /\ ServerInit
  /\ \E pre \in Proses, lit \in Literals, post \in Proses :
       calc = ParseInput(pre, lit, post)

\* The decode steps of generateScenario run on the text: the value they
\* return, or the message of the Error they throw.
ParseText ==
  /\ calc.fn = "parse"
  /\ calc.st = "input"
  /\ LET result == ParseCompletion(calc.text)
     IN  calc' = [calc EXCEPT !.st = "done",
                              !.result = result,
                              !.err = IF result.ok THEN NoMessage
                                      ELSE MalformedMessage(calc.text)]
  /\ UNCHANGED <<rows, seq, clock, dbInit, reqs, out, ui>>

NextParse == ParseText

SpecParse == InitParse /\ [][NextParse]_vars

\* The parser on a text that holds two object literals, with prose between
\* them.
TwoObjectsInput(first, between, second) ==
  [fn |-> "parse", st |-> "input", pre |-> <<>>, lit |-> <<first>>,
   post |-> between \o <<second>>, text |-> <<first>> \o between \o <<second>>,
   result |-> Thrown, err |-> NoMessage]

InitParseMany ==
  /\ ServerInit
  /\ \E first \in Payloads, between \in Proses, second \in Payloads :
       calc = TwoObjectsInput(first, between, second)

SpecParseMany == InitParseMany /\ [][NextParse]_vars

\* -------------------------------------------- POST /api/narrative/generate
\* if (question): a question that is missing or the empty string selects
\* the bulletin.
NarrativeMode(body) ==
  IF Has(body, "question") /\ body.question # <<>> THEN "qa" ELSE "bulletin"

\* Both prompt templates read baselineData.global_temp.current and
\* baselineData.sea_level_rise.current and call toLocaleString on
\* humanImpacts.death_toll_annual and humanImpacts.refugees; the handler
\* substitutes no defaults.
NarrativePromptThrows(body) ==
  \/ ~Has(body, "baselineData")
  \/ ~Has(body, "humanImpacts")
  \/ PromptThrows(body.baselineData, body.humanImpacts)

\* A narrative string: the content of the completion, or one of the two
\* templates, the Q&A template quoting the question.
CompletionNarrative(text) == [kind |-> "completion", text |-> text]

generateFallbackNarrative_AlwaysBulletin(baselineData, humanImpacts, question) ==
  [kind |-> "bulletin template", text |-> <<>>]

\* generateFallbackNarrative(baselineData, humanImpacts, question = null)
generateFallbackNarrative(baselineData, humanImpacts, question) ==
  IF question # <<>>
  THEN [kind |-> "qa template", text |-> question]
  ELSE [kind |-> "bulletin template", text |-> <<>>]

\* res.status(500).json({ error: 'Failed to generate narrative' })
NarrativeFailure == [status |-> 500, body |-> ErrorBody("Failed to generate narrative")]

\* res.json({ narrative: ... })
NarrativeSuccess(narrative) == [status |-> 200, body |-> [narrative |-> narrative]]

\* The inner try of the handler once the completion call has settled: the
\* content of the completion, or in the catch the fallback narrative, with
\* the question in Q&A mode and without it for the bulletin.
FinishNarrative(body, mode, completion) ==
  IF completion.kind = "answered"
  THEN NarrativeSuccess(CompletionNarrative(completion.text))
  ELSE NarrativeSuccess(
         generateFallbackNarrative(body.baselineData, body.humanImpacts,
                                   IF mode = "qa" THEN body.question ELSE <<>>))

NarrativeBodies ==
  {Spread(Spread(b, h), q) :
     b \in {EmptyObj, [baselineData |-> DefaultBaseline],
            [baselineData |-> {"global_temp"}]},
     h \in {EmptyObj, [humanImpacts |-> DefaultImpacts],
            [humanImpacts |-> {"population"}]},
     q \in {EmptyObj, [question |-> <<>>], [question |-> <<"why">>]}}

NarrativeInput(body) ==
  [fn |-> "narrative", st |-> "input", body |-> body, mode |-> "none",
   completion |-> NoCompletion, resp |-> [status |-> 0, body |-> EmptyObj]]

InitNarrative ==
  /\ ServerInit
  /\ \E body \in NarrativeBodies : calc = NarrativeInput(body)

\* The request arrives: the prompt of its mode is built and the completion
\* is requested; a TypeError of the template ends in the outer catch.
PostNarrativeGenerate ==
  /\ calc.fn = "narrative"
  /\ calc.st = "input"
  /\ IF NarrativePromptThrows(calc.body)
     THEN calc' = [calc EXCEPT !.st = "done", !.resp = NarrativeFailure]
     ELSE calc' = [calc EXCEPT !.st = "awaiting", !.mode = NarrativeMode(calc.body)]
  /\ UNCHANGED <<rows, seq, clock, dbInit, reqs, out, ui>>

\* The completion call of the narrative request settles.
NarrativeCompletionSettles(completion) ==
  /\ calc.fn = "narrative"
  /\ calc.st = "awaiting"
  /\ calc' = [calc EXCEPT !.st = "done",
                           !.completion = completion,
                           !.resp = FinishNarrative(calc.body, calc.mode, completion)]
  /\ UNCHANGED <<rows, seq, clock, dbInit, reqs, out, ui>>

NextNarrative ==
  \/ PostNarrativeGenerate
  \/ \E completion \in Completions : NarrativeCompletionSettles(completion)

SpecNarrative == InitNarrative /\ [][NextNarrative]_vars

\* ------------------------------------------ the forecast constraint engine
\* A computed value is a fraction of tenths, num / den with den > 0; NaN is
\* what arithmetic on undefined yields.
Frac(num, den) == [num |-> num, den |-> den]
NaN == [num |-> 0, den |-> 0]
IsFiniteNumber(f) == f.den # 0
AtLeast(f, tenths) == IsFiniteNumber(f) /\ f.num >= tenths * f.den

\* for (let year = currentYear; year <= endYear; year += 10) years.push(year)
Years(currentYear) ==
  [i \in 1..((EndYear - currentYear) \div DecadeStep + 1) |->
     currentYear + DecadeStep * (i - 1)]

\* baselineData.global_temp.forecast[index]?.value || current: the value at
\* the index when there is one and it is not 0, else the current value.
BaselineAt(forecast, i, current) ==
  IF i \in 1..Len(forecast) /\ forecast[i] # 0 THEN forecast[i] ELSE current

Max(a, b) == IF a >= b THEN a ELSE b

\* The temperature curve of generateSpeculativeForecast: for each sampled
\* year, currentTemp + (max(targetTemp, currentTemp + 1.5) - currentTemp)
\* * progress + Math.random() * 0.3, where progress is (year - currentYear)
\* / (endYear - currentYear); tips[i] is the random term of point i.
\* Math.max of an undefined targetTemp is NaN, and so is every sum with it.
tempForecast(currentYear, global_temp, alt_forecasts, tips) ==
  LET years == Years(currentYear)
      span == EndYear - currentYear
      currentTemp == global_temp.current
      constrainedTargetTemp ==
        Max(alt_forecasts.global_temp_2100, currentTemp + CommittedWarming)
  IN  [i \in 1..Len(years) |->
         [year |-> years[i],
          baseline |-> BaselineAt(global_temp.forecast, i, currentTemp),
          speculative |->
            IF ~Has(alt_forecasts, "global_temp_2100") THEN NaN
            ELSE Frac(currentTemp * span
                        + (constrainedTargetTemp - currentTemp) * (years[i] - currentYear)
                        + tips[i] * span,
                      span)]]

\* scenario.alt_forecasts.global_temp_2100 < 2.0; false for undefined.
BelowTwoDegrees(alt_forecasts) ==
  Has(alt_forecasts, "global_temp_2100") /\ alt_forecasts.global_temp_2100 < TempThreshold

emissionsForecast_FloorForEveryTarget(currentYear, carbon_emissions, alt_forecasts) ==
  LET years == Years(currentYear)
      span == EndYear - currentYear
      currentEmissions == carbon_emissions.current
  IN  [i \in 1..Len(years) |->
         LET dy == years[i] - currentYear
             blend == dy * (DeploymentLag + span)
         IN  [year |-> years[i],
              baseline |-> BaselineAt(carbon_emissions.forecast, i, currentEmissions),
              speculative |->
                IF Has(alt_forecasts, "carbon_emissions_2100")
                THEN Frac(currentEmissions * span
                            + (alt_forecasts.carbon_emissions_2100 - currentEmissions) * dy,
                          span)
                ELSE IF blend >= DeploymentLag * span
                THEN Frac(currentEmissions * MinEmissionsPercent, 100)
                ELSE Frac(currentEmissions * 100 * DeploymentLag * span
                            + (currentEmissions * MinEmissionsPercent
                                 - currentEmissions * 100) * blend,
                          100 * DeploymentLag * span)]]

\* The emissions curve.  With a carbon_emissions_2100: currentEmissions +
\* (aiTargetEmissions - currentEmissions) * progress.  Without: minEmissions
\* is currentEmissions * 0.15, targetEmissions is minEmissions below 2.0
\* degrees and minEmissions * 2 otherwise, and the value is currentEmissions
\* + (targetEmissions - currentEmissions) * min(progress + (year -
\* currentYear) / 20, 1).  The target is in hundredths of tenths.
emissionsForecast(currentYear, carbon_emissions, alt_forecasts) ==
  LET years == Years(currentYear)
      span == EndYear - currentYear
      currentEmissions == carbon_emissions.current
      minEmissions == currentEmissions * MinEmissionsPercent
      targetEmissions ==
        Max(IF BelowTwoDegrees(alt_forecasts) THEN minEmissions ELSE minEmissions * 2,
            minEmissions)
  IN  [i \in 1..Len(years) |->
         LET dy == years[i] - currentYear
             blend == dy * (DeploymentLag + span)
         IN  [year |-> years[i],
              baseline |-> BaselineAt(carbon_emissions.forecast, i, currentEmissions),
              speculative |->
                IF Has(alt_forecasts, "carbon_emissions_2100")
                THEN Frac(currentEmissions * span
                            + (alt_forecasts.carbon_emissions_2100 - currentEmissions) * dy,
                          span)
                ELSE IF blend >= DeploymentLag * span
                THEN Frac(targetEmissions, 100)
                ELSE Frac(currentEmissions * 100 * DeploymentLag * span
                            + (targetEmissions - currentEmissions * 100) * blend,
                          100 * DeploymentLag * span)]]

\* The sea-level curve.  With a sea_level_rise_2100: the linear blend.
\* Without: minPossibleRise is currentSeaLevel + 0.3, the target is
\* max(minPossibleRise * 1.2 or * 1.8, minPossibleRise), and the value is
\* the linear blend plus Math.random() * 0.1; ices[i] is that term of
\* point i in halves of a tenth.  The target is in tenths of tenths.
seaLevelForecast(currentYear, sea_level_rise, alt_forecasts, ices) ==
  LET years == Years(currentYear)
      span == EndYear - currentYear
      currentSeaLevel == sea_level_rise.current
      minPossibleRise == currentSeaLevel + CommittedRise
      constrainedTargetRise ==
        Max(IF BelowTwoDegrees(alt_forecasts) THEN minPossibleRise * LowRiseFactor
            ELSE minPossibleRise * HighRiseFactor,
            minPossibleRise * 10)
  IN  [i \in 1..Len(years) |->
         LET dy == years[i] - currentYear
         IN  [year |-> years[i],
              baseline |-> BaselineAt(sea_level_rise.forecast, i, currentSeaLevel),
              speculative |->
                IF Has(alt_forecasts, "sea_level_rise_2100")
                THEN Frac(currentSeaLevel * span
                            + (alt_forecasts.sea_level_rise_2100 - currentSeaLevel) * dy,
                          span)
                ELSE Frac(currentSeaLevel * 20 * span
                            + (constrainedTargetRise - currentSeaLevel * 10) * dy * 2
                            + ices[i] * 10 * span,
                          20 * span)]]

\* The inputs the engine is run on: the present year, the baseline series
\* (current value and forecast values, in tenths) and the alt_forecasts of
\* the scenario, each target present or absent.
PresentYears == (EndYear - YearsBack)..(EndYear - 1)
CurrentTemps == {0, 11, 26}
BaselineForecasts == {<<>>, <<12, 0>>}
TargetTemps == {-5, 0, 12, 18, 27, 45}
Perturbations == 0..(PerturbationCap - 1)
IceSheetTerms == {0, 1}

OptionalTarget(key, values) == {EmptyObj} \cup {[k \in {key} |-> v] : v \in values}

AltForecasts ==
  {Spread(Spread(t, e), l) :
     t \in OptionalTarget("global_temp_2100", TargetTemps),
     e \in OptionalTarget("carbon_emissions_2100", {98}),
     l \in OptionalTarget("sea_level_rise_2100", {9})}

BaselineSeries(current, forecast) ==
  [global_temp |-> [current |-> current, forecast |-> forecast],
   carbon_emissions |-> [current |-> 385, forecast |-> forecast],
   sea_level_rise |-> [current |-> 2, forecast |-> forecast]]

ForecastInput(currentYear, baselineData, alt_forecasts) ==
  [fn |-> "forecast", st |-> "input", currentYear |-> currentYear,
   baselineData |-> baselineData, alt_forecasts |-> alt_forecasts,
   temperature |-> <<>>, emissions |-> <<>>, seaLevel |-> <<>>]

InitForecast ==
  /\ ServerInit
  /\ \E currentYear \in PresentYears, current \in CurrentTemps,
        forecast \in BaselineForecasts, alt_forecasts \in AltForecasts :
       calc = ForecastInput(currentYear, BaselineSeries(current, forecast), alt_forecasts)

\* Math.random is called for a point only where the code reaches the call:
\* for every temperature point, and for a sea-level point when there is no
\* sea_level_rise_2100.
NoDraws(n) == [i \in 1..n |-> 0]

\* generateSpeculativeForecast runs, Math.random drawing a term per point.
GenerateSpeculativeForecast ==
  /\ calc.fn = "forecast"
  /\ calc.st = "input"
  /\ LET n == Len(Years(calc.currentYear))
     IN  \E tips \in [1..n -> Perturbations],
            ices \in IF Has(calc.alt_forecasts, "sea_level_rise_2100")
                     THEN {NoDraws(n)} ELSE [1..n -> IceSheetTerms] :
           calc' = [calc EXCEPT
                      !.st = "done",
                      !.temperature =
                        tempForecast(calc.currentYear, calc.baselineData.global_temp,
                                     calc.alt_forecasts, tips),
                      !.emissions =
                        emissionsForecast(calc.currentYear,
                                          calc.baselineData.carbon_emissions,
                                          calc.alt_forecasts),
                      !.seaLevel =
                        seaLevelForecast(calc.currentYear,
                                         calc.baselineData.sea_level_rise,
                                         calc.alt_forecasts, ices)]
  /\ UNCHANGED <<rows, seq, clock, dbInit, reqs, out, ui>>

NextForecast == GenerateSpeculativeForecast

SpecForecast == InitForecast /\ [][NextForecast]_vars

\* ------------------------------------- the fallback generators on their own
\* The words of the user inputs the two generators are run on.
InputWords ==
  {"Fusion", "energy", "nuclear", "carbon", "geoengineering", "hero",
   "superhero", "alien", "time", " ", "travel", "hello"}

FallbackInputs == SeqsUpTo(InputWords, MaxInputLen) \cup {SeedInput}

FallbackInput(userInput) ==
  [fn |-> "fallback", st |-> "input", by |-> "none", input |-> userInput,
   result |-> FallbackThrows(<<>>)]

InitFallback ==
  /\ ServerInit
  /\ \E userInput \in FallbackInputs : calc = FallbackInput(userInput)

CallCreateUnique ==
  /\ calc.fn = "fallback"
  /\ calc.st = "input"
  /\ calc' = [calc EXCEPT !.st = "done",
                           !.by = "createUniqueScenarioFromInput",
                           !.result = createUniqueScenarioFromInput(calc.input)]
  /\ UNCHANGED <<rows, seq, clock, dbInit, reqs, out, ui>>

CallGenerateFallback ==
  /\ calc.fn = "fallback"
  /\ calc.st = "input"
  /\ calc' = [calc EXCEPT !.st = "done",
                           !.by = "generateFallbackScenario",
                           !.result = FallbackReturns(generateFallbackScenario(calc.input))]
  /\ UNCHANGED <<rows, seq, clock, dbInit, reqs, out, ui>>

NextFallback == CallCreateUnique \/ CallGenerateFallback

SpecFallback == InitFallback /\ [][NextFallback]_vars

\* ================================================================= claims
CreateSent == out.op = "create"

\* The user input names a keyword class of the fallback generator.
KeywordMatches(userInput) == generateFallbackScenario(userInput).theme # <<"generic">>

\* Neither the direct decode nor the decode of the brace match recovers a
\* value from the text.
Unrecoverable(text) ==
  LET t == Trim(text)
  IN  /\ ~JSONParse(t).ok
      /\ BraceMatch(t) = <<>> \/ ~JSONParse(BraceMatch(t)).ok

\* C1: when the completion call fails and the user input matches a keyword
\* class, POST /api/scenarios succeeds with the record of the keyword
\* fallback generator, which is persisted and returned.
C1_FallbackOnUnavailable ==
  (/\ CreateSent
   /\ out.completion.kind = "rejected"
   /\ Has(out.reqBody, "userInput")
   /\ KeywordMatches(out.reqBody.userInput))
  => /\ out.status = 200
     /\ Len(rows) = Len(out.before) + 1
     /\ rows[Len(rows)].theme = generateFallbackScenario(out.reqBody.userInput).theme

\* C2: when the completion answers with a text from which neither decode
\* recovers a value, POST /api/scenarios answers 500 with an error field and
\* stores nothing, whatever the user input (a fallback keyword included).
C2_MalformedCompletionFails ==
  (/\ CreateSent
   /\ out.completion.kind = "answered"
   /\ Unrecoverable(out.completion.text))
  => /\ out.status = 500
     /\ Has(out.body, "error")
     /\ rows = out.before

C2_Witness ==
  /\ CreateSent
  /\ out.completion.kind = "answered"
  /\ Unrecoverable(out.completion.text)
  /\ \E i \in 1..Len(out.completion.text) : out.completion.text[i] \in Payloads
  /\ Has(out.reqBody, "userInput")
  /\ KeywordMatches(out.reqBody.userInput)
  /\ out.status = 500

Blank(body) == ~Has(body, "userInput") \/ Trim(body.userInput) = <<>>

\* C3: a POST /api/scenarios whose userInput is missing, empty or white space
\* never reaches the completion call and never stores a row.
C3_BlankInputRejected ==
  /\ \A r \in ReqIds : reqs[r].st = "awaiting" => ~Blank(reqs[r].body)
  /\ (CreateSent /\ Blank(out.reqBody)) =>
       out.status # 200 /\ out.completion.kind = "none" /\ rows = out.before

NonNegativeFinite(v) == v.t = "number" /\ v.n >= 0

\* C4: a successful POST /api/scenarios returns and stores alt_forecasts whose
\* fields are all non-negative finite numbers.
C4_ForecastsNonNegative ==
  (CreateSent /\ out.status = 200) =>
    /\ \A k \in DOMAIN out.body.alt_forecasts :
         NonNegativeFinite(out.body.alt_forecasts[k])
    /\ \A k \in DOMAIN JSONDecode(rows[Len(rows)].alt_forecasts) :
         NonNegativeFinite(JSONDecode(rows[Len(rows)].alt_forecasts)[k])

C7_IdsIncrease ==
  \A i, j \in 1..Len(rows) : i < j => rows[i].id < rows[j].id

C7_Witness ==
  /\ Len(rows) >= 2
  /\ InFlight # {}
  /\ out.op = "create"
  /\ out.status = 200

\* C8: GET /api/scenarios returns every stored row exactly once, a row
\* inserted later before every row inserted earlier.
C8_NewestFirst ==
  out.op = "list" =>
    /\ Len(out.body) = Len(rows)
    /\ \A i \in 1..Len(rows) : out.body[i] = rows[Len(rows) + 1 - i]

\* C9: the body of a successful create is the record that a get of its id
\* returns: the same fields with the same values.
C9_CreateReturnsStoredRecord ==
  (out.op = "create" /\ out.status = 200) =>
    out.body = GetScenarioResponse(rows, out.body.id).body

Parsed == calc.fn = "parse" /\ calc.st = "done"

\* A scenario record as the prompt asks for it: theme, narrative and
\* alt_forecasts of non-negative numbers.
WellFormedRecord(obj) ==
  /\ {"theme", "alt_forecasts", "narrative"} \subseteq DOMAIN obj
  /\ \A k \in DOMAIN obj.alt_forecasts : NonNegativeFinite(obj.alt_forecasts[k])

EmbedsWellFormed == calc.lit # <<>> /\ WellFormedRecord(PayloadObj(calc.lit[1]))

BraceFreeAround ==
  /\ \A i \in 1..Len(calc.pre) : calc.pre[i] # "{"
  /\ \A i \in 1..Len(calc.post) : calc.post[i] # "}"

C14_MalformedCarriesPrefix ==
  (Parsed /\ Unrecoverable(calc.text)) =>
    /\ ~calc.result.ok
    /\ calc.err # NoMessage
    /\ Len(calc.err.carried) <= PrefixLen
    /\ calc.err.carried = Substring(Trim(calc.text), PrefixLen)

C14_Witness ==
  /\ Parsed
  /\ calc.lit = <<>>
  /\ Unrecoverable(calc.text)
  /\ Len(Trim(calc.text)) > PrefixLen
  /\ \A i \in 1..Len(calc.text) : calc.text[i] \in {"w", " "}
  /\ ~calc.result.ok
  /\ Len(calc.err.carried) = PrefixLen

\* The keywords of the classes of each generator.
ClassKeywords(by) ==
  IF by = "createUniqueScenarioFromInput"
  THEN {<<"superman">>, <<"hero">>, <<"superhero">>, <<"time", " ", "travel">>,
        <<"time", " ", "machine">>, <<"alien">>, <<"extraterrestrial">>, <<"ufo">>,
        <<"fusion">>, <<"nuclear">>, <<"energy">>}
  ELSE {<<"fusion">>, <<"energy">>, <<"net-zero">>, <<"emissions">>, <<"carbon">>,
        <<"geoengineering">>, <<"climate", " ", "engineering">>, <<"superman">>,
        <<"hero">>, <<"superhero">>, <<"time", " ", "travel">>,
        <<"time", " ", "machine">>}

FallbackDone == calc.fn = "fallback" /\ calc.st = "done"

\* C15: run on an input that no keyword class of it matches, a fallback
\* generator throws an Error whose message quotes the input; it returns no
\* record.
C15_NoMatchFailsExplicitly ==
  (FallbackDone /\ ~IncludesAny(ToLowerCase(calc.input), ClassKeywords(calc.by))) =>
    /\ ~calc.result.ok
    /\ calc.result.quoted = calc.input

\* C16: with the completion call rejected, POST /api/scenarios for the input
\* "What if we master fusion energy before 2025?" answers 200 with a theme
\* that contains "fusion" and a global_temp_2100 of 1.8.
C16_FusionFallbackEndToEnd ==
  (/\ CreateSent
   /\ out.completion.kind = "rejected"
   /\ Has(out.reqBody, "userInput")
   /\ out.reqBody.userInput = SeedInput)
  => /\ out.status = 200
     /\ Has(out.body, "theme")
     /\ Includes(out.body.theme, <<"fusion">>)
     /\ out.body.alt_forecasts.global_temp_2100 = Num(18)

\* The baseline and the impacts generateScenario is called with hold every
\* indicator.
FullyPopulated(body) ==
  /\ DefaultBaseline \subseteq BaselineOf(body)
  /\ DefaultImpacts \subseteq ImpactsOf(body)

\* C17: for every POST /api/scenarios body, overrides absent, complete or
\* partial, generateScenario is called with a baseline and impacts that hold
\* every indicator.
C17_BaselineFullyPopulated ==
  /\ \A r \in ReqIds : reqs[r].st = "awaiting" => FullyPopulated(reqs[r].body)
  /\ CreateSent => FullyPopulated(out.reqBody)

\* C18: every POST /api/scenarios that awaits the completion call is
\* eventually answered, the completion service answering or not.
C18_PostEventuallyAnswered ==
  \A r \in ReqIds : (reqs[r].st = "awaiting") ~> (reqs[r].st = "idle")

ForecastDone == calc.fn = "forecast" /\ calc.st = "done"

\* C19: for a target below current + 1.5 the temperature curve has a point
\* for the year 2100, and its speculative value is at least current + 1.5.
C19_TemperatureFloorAt2100 ==
  (/\ ForecastDone
   /\ Has(calc.alt_forecasts, "global_temp_2100")
   /\ calc.alt_forecasts.global_temp_2100
        < calc.baselineData.global_temp.current + CommittedWarming) =>
    \E i \in 1..Len(calc.temperature) :
      /\ calc.temperature[i].year = EndYear
      /\ AtLeast(calc.temperature[i].speculative,
                 calc.baselineData.global_temp.current + CommittedWarming)

NarrativeDone == calc.fn = "narrative" /\ calc.st = "done"

\* A body of the shape {baselineData, humanImpacts, question?}: both
\* objects present with every indicator.
NarrativeShaped(body) ==
  /\ Has(body, "baselineData") /\ DefaultBaseline \subseteq body.baselineData
  /\ Has(body, "humanImpacts") /\ DefaultImpacts \subseteq body.humanImpacts

Asks(body) == Has(body, "question") /\ body.question # <<>>

\* C20: for a body of that shape POST /api/narrative/generate answers 200
\* with a narrative and no error, whatever the completion call does: in Q&A
\* mode when a question is asked and in bulletin mode otherwise, with the
\* content of the completion when it answers and the template of the same
\* mode when it fails.
C20_NarrativeNeverFails ==
  (NarrativeDone /\ NarrativeShaped(calc.body)) =>
    /\ calc.resp.status = 200
    /\ DOMAIN calc.resp.body = {"narrative"}
    /\ calc.mode = (IF Asks(calc.body) THEN "qa" ELSE "bulletin")
    /\ calc.completion.kind = "answered" =>
         calc.resp.body.narrative = CompletionNarrative(calc.completion.text)
    /\ calc.completion.kind = "rejected" =>
         IF Asks(calc.body)
         THEN calc.resp.body.narrative =
                [kind |-> "qa template", text |-> calc.body.question]
         ELSE calc.resp.body.narrative = [kind |-> "bulletin template", text |-> <<>>]

C20_Witness ==
  /\ NarrativeDone
  /\ NarrativeShaped(calc.body)
  /\ Asks(calc.body)
  /\ calc.completion.kind = "rejected"
  /\ calc.resp.status = 200
  /\ calc.resp.body.narrative.kind = "qa template"

\* The keyword classes in the priority order energy/fusion, decarbonization,
\* geoengineering, hero/superhero, time-travel, alien/extraterrestrial, each
\* with the theme of its record.
ClassOrder ==
  <<[theme |-> "fusion", kws |-> {<<"fusion">>, <<"energy">>}],
    [theme |-> "decarbonization",
     kws |-> {<<"net-zero">>, <<"emissions">>, <<"carbon">>}],
    [theme |-> "geoengineering",
     kws |-> {<<"geoengineering">>, <<"climate", " ", "engineering">>}],
    [theme |-> "superhero", kws |-> {<<"superman">>, <<"hero">>, <<"superhero">>}],
    [theme |-> "temporal",
     kws |-> {<<"time", " ", "travel">>, <<"time", " ", "machine">>}],
    [theme |-> "alien", kws |-> {<<"alien">>, <<"extraterrestrial">>, <<"ufo">>}]>>

ClassesMatching(userInput) ==
  {c \in 1..Len(ClassOrder) : IncludesAny(ToLowerCase(userInput), ClassOrder[c].kws)}

FirstClass(userInput) ==
  CHOOSE c \in ClassesMatching(userInput) : \A d \in ClassesMatching(userInput) : c <= d

\* C21: run on an input that matches a keyword class, a fallback generator
\* returns the record of the first class of the priority order that
\* matches, the alien record for an input matching only the alien class.
C21_FirstClassInOrderWins ==
  (FallbackDone /\ ClassesMatching(calc.input) # {}) =>
    /\ calc.result.ok
    /\ calc.result.rec.theme = <<ClassOrder[FirstClass(calc.input)].theme>>

\* C22 as stated: on a text with two object literals and prose between
\* them the parser returns the first object.
C22_FirstObjectReturned ==
  Parsed =>
    /\ calc.result.ok
    /\ calc.result.obj = PayloadObj(calc.lit[1])

\* C22, amended: on a text with two object literals the brace match runs
\* from the first "{" to the last "}", its decode throws, and the parser
\* throws the error of an invalid extraction; it returns neither object.
C22_SeveralObjectsFail ==
  Parsed =>
    /\ ~calc.result.ok
    /\ BraceMatch(Trim(calc.text)) = Trim(calc.text)
    /\ calc.err.lead = "OpenAI API error: AI generated invalid JSON. Response: "
    /\ calc.err.carried = Substring(Trim(calc.text), PrefixLen)

C22_Witness ==
  /\ Parsed
  /\ calc.lit = <<"good">>
  /\ Len(calc.post) >= 2
  /\ calc.post[1] = "w"
  /\ calc.post[Len(calc.post)] = "good"
  /\ ~calc.result.ok

\* C23: when any of global_temp_2100, carbon_emissions_2100 or
\* sea_level_rise_2100 is absent from alt_forecasts, every speculative value
\* of the temperature, emissions and sea-level curves is a finite number.
SomeTargetAbsent ==
  \E k \in {"global_temp_2100", "carbon_emissions_2100", "sea_level_rise_2100"} :
    ~Has(calc.alt_forecasts, k)

AllFinite(curve) == \A i \in 1..Len(curve) : IsFiniteNumber(curve[i].speculative)

C23_AbsentTargetStaysFinite ==
  (ForecastDone /\ SomeTargetAbsent) =>
    /\ AllFinite(calc.temperature)
    /\ AllFinite(calc.emissions)
    /\ AllFinite(calc.seaLevel)

RECURSIVE GCD(_, _)
GCD(a, b) == IF b = 0 THEN a ELSE GCD(b, a % b)
Abs(a) == IF a < 0 THEN 0 - a ELSE a
\* the fraction in lowest terms, so that equal values are equal records
Reduce(f) ==
  LET g == GCD(Abs(f.num), f.den) IN Frac(f.num \div g, f.den \div g)
SameValue(f, g) ==
  IsFiniteNumber(f) /\ IsFiniteNumber(g) /\ Reduce(f) = Reduce(g)

\* The blend current + (target - current) * min(progress + dy / 20, 1), with
\* progress dy / span, the target in hundredths of the unit of current.
LagFactor(dy, span) ==
  IF dy * DeploymentLag + dy * span >= span * DeploymentLag
  THEN Frac(1, 1)
  ELSE Frac(dy * DeploymentLag + dy * span, span * DeploymentLag)

LagBlend(current, targetHundredths, dy, span) ==
  LET f == LagFactor(dy, span)
  IN  Frac(current * 100 * f.den + (targetHundredths - current * 100) * f.num,
           100 * f.den)

LinearBlend(current, target, dy, span) ==
  Frac(current * span + (target - current) * dy, span)

EmissionsFollow(targetHundredths) ==
  LET current == calc.baselineData.carbon_emissions.current
      span == EndYear - calc.currentYear
  IN  \A i \in 1..Len(calc.emissions) :
        LET dy == calc.emissions[i].year - calc.currentYear
        IN  SameValue(calc.emissions[i].speculative,
                      IF Has(calc.alt_forecasts, "carbon_emissions_2100")
                      THEN LinearBlend(current,
                                       calc.alt_forecasts.carbon_emissions_2100,
                                       dy, span)
                      ELSE LagBlend(current, targetHundredths, dy, span))

\* C24 as stated: without a carbon_emissions_2100 the emissions curve blends
\* toward current * 0.15 for every temperature target, by the factor
\* min(progress + dy / 20, 1); with one it is the plain linear blend.
C24_EmissionsTowardFloor ==
  ForecastDone =>
    EmissionsFollow(calc.baselineData.carbon_emissions.current * MinEmissionsPercent)

\* C24 amended: without a carbon_emissions_2100 the target is current * 0.15
\* only when global_temp_2100 is present and below 2.0, and current * 0.30
\* otherwise; the blend factor and the linear blend are as stated.
C24_EmissionsTowardFloorOrTwice ==
  ForecastDone =>
    EmissionsFollow(
      IF Has(calc.alt_forecasts, "global_temp_2100")
         /\ calc.alt_forecasts.global_temp_2100 < TempThreshold
      THEN calc.baselineData.carbon_emissions.current * MinEmissionsPercent
      ELSE calc.baselineData.carbon_emissions.current * MinEmissionsPercent * 2)

C24_Witness ==
  /\ ForecastDone
  /\ ~Has(calc.alt_forecasts, "carbon_emissions_2100")
  /\ Has(calc.alt_forecasts, "global_temp_2100")
  /\ calc.alt_forecasts.global_temp_2100 >= TempThreshold
  /\ Len(calc.emissions) >= 2
  /\ SameValue(calc.emissions[2].speculative,
               LagBlend(calc.baselineData.carbon_emissions.current,
                        calc.baselineData.carbon_emissions.current
                          * MinEmissionsPercent * 2,
                        DecadeStep, EndYear - calc.currentYear))

\* C25: every point of every curve pairs the sampled year with the baseline
\* curve's value at the same index when the index is within the baseline
\* curve, a value of 0 included, and with the current value only when the
\* index is out of range.
PairedByIndex(curve, series) ==
  /\ Len(curve) = Len(Years(calc.currentYear))
  /\ \A i \in 1..Len(curve) :
       /\ curve[i].year = Years(calc.currentYear)[i]
       /\ curve[i].baseline =
            IF i <= Len(series.forecast) THEN series.forecast[i] ELSE series.current

C25_BaselinePairedByIndex ==
  ForecastDone =>
    /\ PairedByIndex(calc.temperature, calc.baselineData.global_temp)
    /\ PairedByIndex(calc.emissions, calc.baselineData.carbon_emissions)
    /\ PairedByIndex(calc.seaLevel, calc.baselineData.sea_level_rise)

\* C26: the id in the response of a successful POST /api/scenarios is the id
\* the store assigned to the inserted row, whatever fields the decoded
\* completion object has.
CreateSucceeded == out.op = "create" /\ out.status = 200

C26_ResponseIdIsStoreId ==
  CreateSucceeded =>
    /\ Len(rows) = Len(out.before) + 1
    /\ out.body.id = rows[Len(rows)].id

\* C27: every element of the GET /api/scenarios result is the record that
\* GET /api/scenarios/:id returns for its id, alt_forecasts in the same
\* decoded form in both.
C27_ListAgreesWithGet ==
  out.op = "list" =>
    \A i \in 1..Len(out.body) :
      LET got == GetScenarioResponse(rows, out.body[i].id)
      IN  /\ got.status = 200
          /\ got.body = out.body[i]

\* C28: however often initDatabase runs against the same database, with
\* creations in between, the table holds at most one row that initDatabase
\* inserted, and a run inserts nothing when a row with the seed's user_input
\* exists.  The rows of initDatabase are those whose created_at the table's
\* default wrote.
SeedRows == {i \in 1..Len(rows) : rows[i].created_at.sep = 0}

SeedCheckStep == dbInit = "pending" /\ dbInit' = "done"

SeedRowsOf(table) == {i \in 1..Len(table) : table[i].created_at.sep = 0}

C28_SeedingIdempotent ==
  [][/\ Cardinality(SeedRowsOf(rows')) <= 1
     /\ (/\ SeedCheckStep
         /\ \E i \in 1..Len(rows) : rows[i].user_input = SeedScenario.user_input)
        => rows' = rows]_vars

C28_Witness ==
  /\ Restarts >= 2
  /\ dbInit = "done"
  /\ calc.rowsAtStart >= 2
  /\ Cardinality(SeedRows) = 1
  /\ CountUserInput(rows, SeedScenario.user_input) >= 2

\* C29: WhatIfMode has at most one POST /api/scenarios in flight, whether
\* generateScenario is called by the Generate button or by the Enter key,
\* and generating is false once no request is in flight.
C29_OneGenerationInFlight ==
  /\ Cardinality(PostsInFlight) <= 1
  /\ PostsInFlight = {} => ~ui.generating

\* C30: a currentScenario that is not null is an element of scenarios.
C30_CurrentIsListed ==
  ui.currentScenario # Null =>
    \E i \in 1..Len(ui.scenarios) : ui.scenarios[i] = ui.currentScenario

====
